---- MODULE Spec2Model ----
(***************************************************************************)
(* Repayment allocation of the SACCO lending system.                       *)
(*                                                                         *)
(* State: the loans (ledger fields), the repayment schedule rows, the      *)
(* repayment transaction last saved (earlier ones are never edited again), *)
(* and the current date.  charged remembers the penalty each row was       *)
(* created with.  proc holds the requests in flight when payments are      *)
(* processed concurrently, app the loan application whose interest is      *)
(* calculated.  Amounts are whole currency units, so the rounding          *)
(* tolerance Decimal('1.00') is 1.                                         *)
(***************************************************************************)
EXTENDS Integers, Sequences, FiniteSets, TLC

\* ------------------------------------------------------------------ bounds
MaxDay == 2           \* date.today() ranges over 1..MaxDay
MaxTotalPaid == 5    \* cap on loan.total_paid (an unbounded counter)
MaxBalance == 2       \* cap on each loan balance

LoanIds == {1, 2}
Inst == {1, 2}

\* the schedules in the database: both rows belong to loan 1
LoanOfChoices == {[i \in Inst |-> 1]}

\* values entered through the forms
Amounts == {0, 2, 3}
Breakdowns == {<<0, 0, 0>>, <<1, 2, 2>>, <<-1, 0, 0>>}
\* due dates of rows 1 and 2: row 2 is due first, or both on the same day
DueChoices == {<<2, 1>>, <<2, 2>>}
PrincipalChoices == {1}
InterestChoices == {1}
PenaltyChoices == {0, 1}

ScheduleStatus == {"pending", "paid", "partial", "overdue", "waived"}
TxnStatus == {"pending", "completed", "failed", "cancelled", "reversed"}
\* the statuses entered through the form in this model
TxnStatusInputs == {"pending", "completed", "reversed"}
LoanStatus == {"active", "completed", "defaulted", "written_off", "restructured"}

Min(a, b) == IF a <= b THEN a ELSE b
Max(a, b) == IF a >= b THEN a ELSE b

VARIABLES loan, sched, txn, today, charged, proc, app, numbers, applications
vars == <<loan, sched, txn, today, charged, proc, app, numbers, applications>>

\* the loans in the database
Loans == DOMAIN loan

\* ------------------------------------------------- RepaymentSchedule.save
\* variant: a waived row keeps its status
ScheduleStatusRule_sticky(s, t) ==
    IF s.status = "waived" THEN "waived"
    ELSE IF s.total_paid >= s.total_amount + s.penalty_outstanding THEN "paid"
    ELSE IF s.total_paid > 0 THEN "partial"
    ELSE IF s.due_date < t THEN "overdue"
    ELSE "pending"

ScheduleStatusRule(s, t) ==
    IF s.total_paid >= s.total_amount + s.penalty_outstanding THEN "paid"
    ELSE IF s.total_paid > 0 THEN "partial"
    ELSE IF s.due_date < t THEN "overdue"
    ELSE "pending"

RepaymentSchedule_save(s, t) ==
    LET po == s.principal_amount - s.principal_paid
        io == s.interest_amount - s.interest_paid
    IN  [s EXCEPT !.principal_outstanding = po,
                  !.interest_outstanding = io,
                  !.total_outstanding = po + io + s.penalty_outstanding - s.penalty_paid,
                  !.status = ScheduleStatusRule(s, t)]

\* the property is_overdue, read on day t
is_overdue(s, t) == s.due_date < t /\ s.status \in {"pending", "partial"}

\* a schedule row as first saved: nothing paid yet
NewSchedule(l, due, p, i, pen, t) ==
    RepaymentSchedule_save(
        [loan |-> l, due_date |-> due,
         principal_amount |-> p, interest_amount |-> i, total_amount |-> p + i,
         principal_paid |-> 0, interest_paid |-> 0, penalty_paid |-> 0, total_paid |-> 0,
         principal_outstanding |-> 0, interest_outstanding |-> 0,
         penalty_outstanding |-> pen, total_outstanding |-> 0,
         status |-> "pending"], t)

\* ------------------------------- RepaymentTransaction.update_loan_balances
\* variant: the tolerance itself does not count as paid off
LoanCompleted_strict(ob, oi, pb, st) ==
    IF ob + oi + pb < 1 THEN "completed" ELSE st

LoanCompleted(ob, oi, pb, st) ==
    IF ob + oi + pb <= 1 THEN "completed" ELSE st

\* variant: the balances are not floored at zero
update_loan_balances_unclamped(ln, tx) ==
    LET ob == ln.outstanding_balance - tx.principal_amount
        oi == ln.outstanding_interest - tx.interest_amount
        pb == ln.penalty_balance - tx.penalty_amount
    IN  [ln EXCEPT !.total_paid = ln.total_paid + tx.amount,
                   !.outstanding_balance = ob,
                   !.outstanding_interest = oi,
                   !.penalty_balance = pb,
                   !.status = LoanCompleted(ob, oi, pb, ln.status)]

update_loan_balances(ln, tx) ==
    LET ob == Max(ln.outstanding_balance - tx.principal_amount, 0)
        oi == Max(ln.outstanding_interest - tx.interest_amount, 0)
        pb == Max(ln.penalty_balance - tx.penalty_amount, 0)
    IN  [ln EXCEPT !.total_paid = ln.total_paid + tx.amount,
                   !.outstanding_balance = ob,
                   !.outstanding_interest = oi,
                   !.penalty_balance = pb,
                   !.status = LoanCompleted(ob, oi, pb, ln.status)]

\* Loan.completion_percentage as the fraction n/d
completion_percentage(ln) ==
    IF ln.principal_amount + ln.total_interest = 0
    THEN [n |-> 0, d |-> 1]
    ELSE [n |-> ln.total_paid * 100, d |-> ln.principal_amount + ln.total_interest]

\* ------------------------------ RepaymentTransaction.allocate_to_schedules
NoAlloc == [penalty |-> 0, interest |-> 0, principal |-> 0]

\* variant: the status filter is missing
Eligible_any_status(sc, l) == {i \in Inst : sc[i].loan = l}

\* filter(loan=..., status__in=[pending, partial, overdue])
Eligible(sc, l) ==
    {i \in Inst : sc[i].loan = l /\ sc[i].status \in {"pending", "partial", "overdue"}}

\* variant: the rows are listed latest due date first
IsOrdered_desc(sc, q) ==
    \A a, b \in 1..Len(q) : a < b => sc[q[a]].due_date >= sc[q[b]].due_date

\* order_by('due_date'): any listing of the rows with due dates ascending
IsOrdered(sc, q) ==
    \A a, b \in 1..Len(q) : a < b => sc[q[a]].due_date <= sc[q[b]].due_date

Orderings(sc, S) ==
    {q \in [1..Cardinality(S) -> S] :
        /\ \A a, b \in 1..Cardinality(S) : a # b => q[a] # q[b]
        /\ IsOrdered(sc, q)}

\* variant: interest is served before the penalty
Waterfall_interest_first(s, payment_for_schedule) ==
    LET interest_payment == Min(payment_for_schedule, s.interest_outstanding)
        p1 == payment_for_schedule - interest_payment
        penalty_payment == Min(p1, s.penalty_outstanding)
        p2 == p1 - penalty_payment
        principal_payment == Min(p2, s.principal_outstanding)
    IN  [penalty |-> penalty_payment, interest |-> interest_payment,
         principal |-> principal_payment]

\* variant: whatever is left after the penalty goes to interest, uncapped
Waterfall_uncapped_interest(s, payment_for_schedule) ==
    LET penalty_payment == Min(payment_for_schedule, s.penalty_outstanding)
        interest_payment == payment_for_schedule - penalty_payment
    IN  [penalty |-> penalty_payment, interest |-> interest_payment,
         principal |-> 0]

\* the waterfall of one row: penalties first, then interest, then principal
Waterfall(s, payment_for_schedule) ==
    LET penalty_payment == Min(payment_for_schedule, s.penalty_outstanding)
        p1 == payment_for_schedule - penalty_payment
        interest_payment == Min(p1, s.interest_outstanding)
        p2 == p1 - interest_payment
        principal_payment == Min(p2, s.principal_outstanding)
    IN  [penalty |-> penalty_payment, interest |-> interest_payment,
         principal |-> principal_payment]

ScheduleOutstanding(s) == s.total_outstanding + s.penalty_outstanding

\* variant: the penalty part is left out of the total
AllocationTotal_without_penalty(w) == w.interest + w.principal

\* penalty_payment + interest_payment + principal_payment
AllocationTotal(w) == w.penalty + w.interest + w.principal

RECURSIVE AllocLoop(_, _, _, _, _)
AllocLoop(q, k, remaining_amount, acc, t) ==
    IF k > Len(q) \/ remaining_amount <= 0 THEN acc
    ELSE
      LET i == q[k]
          s == acc.sched[i]
          payment_for_schedule == Min(remaining_amount, ScheduleOutstanding(s))
      IN  IF payment_for_schedule > 0
          THEN LET w == Waterfall(s, payment_for_schedule)
                   tot == AllocationTotal(w)
                   s2 == RepaymentSchedule_save(
                            [s EXCEPT !.penalty_paid = @ + w.penalty,
                                      !.interest_paid = @ + w.interest,
                                      !.principal_paid = @ + w.principal,
                                      !.total_paid = @ + tot], t)
               IN  AllocLoop(q, k + 1, remaining_amount - tot,
                             [sched |-> [acc.sched EXCEPT ![i] = s2],
                              alloc |-> [acc.alloc EXCEPT ![i] = w]], t)
          ELSE AllocLoop(q, k + 1, remaining_amount, acc, t)

allocate_to_schedules(sc, q, amount, t) ==
    AllocLoop(q, 1, amount, [sched |-> sc, alloc |-> [i \in Inst |-> NoAlloc]], t)

\* ------------------------------------------------------------------- Init
NoTxn == [status |-> "none", loan |-> 0, amount |-> 0,
          principal_amount |-> 0, interest_amount |-> 0, penalty_amount |-> 0]

SumOver(f, S) ==
    LET RECURSIVE Sum(_)
        Sum(T) == IF T = {} THEN 0
                  ELSE LET x == CHOOSE y \in T : TRUE IN f[x] + Sum(T \ {x})
    IN  Sum(S)

NewLoan(sc, l) ==
    LET RowsOf == {i \in Inst : sc[i].loan = l} IN
    [status |-> "active",
     principal_amount |-> SumOver([i \in Inst |-> sc[i].principal_amount], RowsOf),
     total_interest |-> SumOver([i \in Inst |-> sc[i].interest_amount], RowsOf),
     outstanding_balance |-> SumOver([i \in Inst |-> sc[i].principal_amount], RowsOf),
     outstanding_interest |-> SumOver([i \in Inst |-> sc[i].interest_amount], RowsOf),
     penalty_balance |-> SumOver([i \in Inst |-> sc[i].penalty_outstanding], RowsOf),
     total_paid |-> 0]

\* no request in flight, no loan application
NoProc == <<>>
NoApp == [method |-> "none"]

\* no record with a generated number, no application in the admin list
NoNumbers == <<>>

NoApplications == <<>>

Init ==
    /\ today = 1
    /\ proc = NoProc
    /\ app = NoApp
    /\ \E lo \in LoanOfChoices, due \in DueChoices, p \in [Inst -> PrincipalChoices],
          n \in [Inst -> InterestChoices], pen \in [Inst -> PenaltyChoices] :
         /\ sched = [i \in Inst |-> NewSchedule(lo[i], due[i], p[i], n[i], pen[i], 1)]
         /\ loan = [l \in {lo[i] : i \in Inst} |-> NewLoan(sched, l)]
         /\ charged = pen
    /\ txn = NoTxn
    /\ numbers = NoNumbers
    /\ applications = NoApplications

\* ---------------------------------------------- RepaymentTransaction.save
\* MinValueValidator(0) on amount; the allocation fields carry no validator
AmountValid(a) == a >= 0

\* the body of save() once the row is written: completed => update + allocate;
\* maxPaid and maxBalance keep the explored ledger finite
SaveWithin(tx, maxPaid, maxBalance) ==
    /\ txn' = tx
    /\ IF tx.status = "completed"
       THEN /\ loan[tx.loan].total_paid + tx.amount <= maxPaid
            /\ loan[tx.loan].outstanding_balance - tx.principal_amount <= maxBalance
            /\ loan' = [loan EXCEPT ![tx.loan] = update_loan_balances(@, tx)]
            /\ \E q \in Orderings(sched, Eligible(sched, tx.loan)) :
                 LET r == allocate_to_schedules(sched, q, tx.amount, today)
                 IN  sched' = r.sched
       ELSE UNCHANGED <<loan, sched>>
    /\ UNCHANGED <<today, charged, proc, app, numbers, applications>>

\* variant: reversing a completed transaction wipes what was paid on the rows
\* of its loan
RepaymentTransaction_save_reverting(tx) ==
    /\ txn' = tx
    /\ IF tx.status = "completed"
       THEN /\ loan[tx.loan].total_paid + tx.amount <= MaxTotalPaid
            /\ loan[tx.loan].outstanding_balance - tx.principal_amount <= MaxBalance
            /\ loan' = [loan EXCEPT ![tx.loan] = update_loan_balances(@, tx)]
            /\ \E q \in Orderings(sched, Eligible(sched, tx.loan)) :
                 LET r == allocate_to_schedules(sched, q, tx.amount, today)
                 IN  sched' = r.sched
       ELSE IF tx.status = "reversed" /\ txn.status = "completed"
       THEN /\ sched' = [i \in Inst |->
                          IF sched[i].loan = tx.loan
                          THEN RepaymentSchedule_save(
                                 [sched[i] EXCEPT !.principal_paid = 0, !.interest_paid = 0,
                                                  !.penalty_paid = 0, !.total_paid = 0], today)
                          ELSE sched[i]]
            /\ UNCHANGED loan
       ELSE UNCHANGED <<loan, sched>>
    /\ UNCHANGED <<today, charged, proc, app, numbers, applications>>

RepaymentTransaction_save(tx) == SaveWithin(tx, MaxTotalPaid, MaxBalance)

\* a new transaction is entered and saved
CreateTransaction ==
    \E l \in Loans, a \in Amounts, b \in Breakdowns, st \in TxnStatusInputs :
        /\ AmountValid(a)
        /\ RepaymentTransaction_save(
              [status |-> st, loan |-> l, amount |-> a,
               principal_amount |-> b[1], interest_amount |-> b[2],
               penalty_amount |-> b[3]])

\* the transaction last saved is edited (its status, or nothing) and saved again
ResaveTransaction ==
    /\ txn.status # "none"
    /\ \E st \in TxnStatusInputs : RepaymentTransaction_save([txn EXCEPT !.status = st])

\* a schedule row is edited (its status field) and saved
SaveSchedule(i) ==
    /\ \E st \in ScheduleStatus :
         sched' = [sched EXCEPT ![i] = RepaymentSchedule_save([@ EXCEPT !.status = st], today)]
    /\ UNCHANGED <<loan, txn, today, charged, proc, app, numbers, applications>>

\* ------------------------------------------------- LoanAdmin bulk actions
\* variant: the update is not filtered by status
BulkUpdate_any_status(Q, from, to) ==
    [l \in Loans |-> IF l \in Q THEN [loan[l] EXCEPT !.status = to] ELSE loan[l]]

BulkUpdate(Q, from, to) ==
    [l \in Loans |-> IF l \in Q /\ loan[l].status = from
                     THEN [loan[l] EXCEPT !.status = to] ELSE loan[l]]

mark_as_completed ==
    \E Q \in SUBSET Loans :
        /\ Q # {}
        /\ loan' = BulkUpdate(Q, "active", "completed")
        /\ UNCHANGED <<sched, txn, today, charged, proc, app, numbers, applications>>

mark_as_defaulted ==
    \E Q \in SUBSET Loans :
        /\ Q # {}
        /\ loan' = BulkUpdate(Q, "active", "defaulted")
        /\ UNCHANGED <<sched, txn, today, charged, proc, app, numbers, applications>>

\* date.today() moves on
Tick ==
    /\ today < MaxDay
    /\ today' = today + 1
    /\ UNCHANGED <<loan, sched, txn, charged, proc, app, numbers, applications>>

Next ==
    \/ CreateTransaction
    \/ ResaveTransaction
    \/ \E i \in Inst : SaveSchedule(i)
    \/ mark_as_completed
    \/ mark_as_defaulted
    \/ Tick

Spec == Init /\ [][Next]_vars

\* ---------------------------------------- two loans, rows marked as waived
\* one row per loan; a row may have been marked waived in the database (a
\* status save() itself never produces)
InitLoans ==
    /\ today = 1
    /\ proc = NoProc
    /\ app = NoApp
    /\ \E pen \in [Inst -> PenaltyChoices], W \in SUBSET Inst :
         /\ sched = [i \in Inst |->
                       LET s == NewSchedule(i, 1, 1, 1, pen[i], 1)
                       IN  IF i \in W THEN [s EXCEPT !.status = "waived"] ELSE s]
         /\ loan = [l \in Inst |-> NewLoan(sched, l)]
         /\ charged = pen
    /\ txn = NoTxn
    /\ numbers = NoNumbers
    /\ applications = NoApplications

\* a new transaction is entered with its amount only: the allocation fields
\* keep their default 0
CreateDefaultTransaction ==
    \E l \in Loans, a \in Amounts, st \in TxnStatusInputs :
        /\ AmountValid(a)
        /\ RepaymentTransaction_save(
              [status |-> st, loan |-> l, amount |-> a,
               principal_amount |-> 0, interest_amount |-> 0, penalty_amount |-> 0])

NextLoans ==
    \/ CreateDefaultTransaction
    \/ ResaveTransaction
    \/ \E i \in Inst : SaveSchedule(i)
    \/ Tick

SpecLoans == InitLoans /\ [][NextLoans]_vars

\* ------------------------------------------- the worked examples, in money
ExampleMaxTotalPaid == 1200

ExampleAmounts == {300, 600}

\* one installment of 1000 + 200 with a penalty of 50 (and a row of another
\* loan), or two installments of 500 due in consecutive months
ExampleRows ==
    {<<[loan |-> 1, due |-> 1, p |-> 1000, n |-> 200, pen |-> 50],
       [loan |-> 2, due |-> 1, p |-> 500, n |-> 0, pen |-> 0]>>}
    \cup
    {<<[loan |-> 1, due |-> d[1], p |-> sp[1], n |-> sp[2], pen |-> 0],
       [loan |-> 1, due |-> d[2], p |-> sp[1], n |-> sp[2], pen |-> 0]>> :
         d \in {<<1, 2>>, <<2, 1>>}, sp \in {<<500, 0>>, <<400, 100>>}}

InitExample ==
    /\ today = 1
    /\ proc = NoProc
    /\ app = NoApp
    /\ \E ex \in ExampleRows :
         /\ sched = [i \in Inst |->
                       NewSchedule(ex[i].loan, ex[i].due, ex[i].p, ex[i].n, ex[i].pen, 1)]
         /\ loan = [l \in {ex[i].loan : i \in Inst} |-> NewLoan(sched, l)]
         /\ charged = [i \in Inst |-> ex[i].pen]
    /\ txn = NoTxn
    /\ numbers = NoNumbers
    /\ applications = NoApplications

CreateExampleTransaction ==
    \E l \in Loans, a \in ExampleAmounts, st \in TxnStatusInputs :
        /\ AmountValid(a)
        /\ SaveWithin([status |-> st, loan |-> l, amount |-> a,
                       principal_amount |-> 0, interest_amount |-> 0,
                       penalty_amount |-> 0],
                      ExampleMaxTotalPaid, loan[l].principal_amount)

ResaveExampleTransaction ==
    /\ txn.status # "none"
    /\ \E st \in TxnStatusInputs :
         SaveWithin([txn EXCEPT !.status = st],
                    ExampleMaxTotalPaid, loan[txn.loan].principal_amount)

NextExample ==
    \/ CreateExampleTransaction
    \/ ResaveExampleTransaction
    \/ \E i \in Inst : SaveSchedule(i)
    \/ Tick

SpecExample == InitExample /\ [][NextExample]_vars

\* ----------------------------- two requests saving payments at the same time
\* No transaction.atomic, select_for_update or F() expression is used: every
\* read and every save() below is a database statement of its own, and the
\* statements of two requests interleave freely.
Procs == {1, 2}

RaceAmounts == {1, 2}

NoLoanRead == [status |-> "none"]

IdleProc == [pc |-> "idle", tx |-> NoTxn, ln |-> NoLoanRead, snap |-> <<>>,
             q |-> <<>>, k |-> 0, remaining |-> 0,
             credit |-> [i \in Inst |-> 0]]

InitRace ==
    /\ today = 1
    /\ proc = [p \in Procs |-> IdleProc]
    /\ app = NoApp
    /\ \E lo \in LoanOfChoices, due \in DueChoices, p \in [Inst -> PrincipalChoices],
          n \in [Inst -> InterestChoices], pen \in [Inst -> PenaltyChoices] :
         /\ sched = [i \in Inst |-> NewSchedule(lo[i], due[i], p[i], n[i], pen[i], 1)]
         /\ loan = [l \in {lo[i] : i \in Inst} |-> NewLoan(sched, l)]
         /\ charged = pen
    /\ txn = NoTxn
    /\ numbers = NoNumbers
    /\ applications = NoApplications

\* super().save(): the completed transaction is written
InsertTransaction(p) ==
    /\ proc[p].pc = "idle"
    /\ \E l \in Loans, a \in RaceAmounts :
         LET tx == [status |-> "completed", loan |-> l, amount |-> a,
                    principal_amount |-> 0, interest_amount |-> 0, penalty_amount |-> 0]
         IN  /\ AmountValid(a)
             /\ txn' = tx
             /\ proc' = [proc EXCEPT ![p].pc = "saved", ![p].tx = tx]
    /\ UNCHANGED <<loan, sched, today, charged, app, numbers, applications>>

\* loan = self.loan: the loan row is loaded into the request
ReadLoan(p) ==
    /\ proc[p].pc = "saved"
    /\ proc' = [proc EXCEPT ![p].pc = "loan_read", ![p].ln = loan[proc[p].tx.loan]]
    /\ UNCHANGED <<loan, sched, txn, today, charged, app, numbers, applications>>

\* loan.save(): every field of the loaded loan is written back
WriteLoan(p) ==
    /\ proc[p].pc = "loan_read"
    /\ loan' = [loan EXCEPT ![proc[p].tx.loan] = update_loan_balances(proc[p].ln, proc[p].tx)]
    /\ proc' = [proc EXCEPT ![p].pc = "loan_saved"]
    /\ UNCHANGED <<sched, txn, today, charged, app, numbers, applications>>

\* the for loop evaluates the queryset: the eligible rows are loaded, in order
QuerySchedules(p) ==
    /\ proc[p].pc = "loan_saved"
    /\ \E q \in Orderings(sched, Eligible(sched, proc[p].tx.loan)) :
         proc' = [proc EXCEPT ![p].pc = "alloc", ![p].snap = sched, ![p].q = q,
                              ![p].k = 1, ![p].remaining = proc[p].tx.amount]
    /\ UNCHANGED <<loan, sched, txn, today, charged, app, numbers, applications>>

\* variant: the row is read again from the database when its turn comes
LoadedRow_fresh(p, i) == sched[i]

\* the row object the loop works on: the one the queryset loaded
LoadedRow(p, i) == proc[p].snap[i]

\* one iteration of the loop: allocate to the loaded row and save it
AllocRow(p) ==
    /\ proc[p].pc = "alloc"
    /\ proc[p].k <= Len(proc[p].q)
    /\ proc[p].remaining > 0
    /\ LET i == proc[p].q[proc[p].k]
           s == LoadedRow(p, i)
           payment_for_schedule == Min(proc[p].remaining, ScheduleOutstanding(s))
       IN  IF payment_for_schedule > 0
           THEN LET w == Waterfall(s, payment_for_schedule)
                    tot == AllocationTotal(w)
                    s2 == RepaymentSchedule_save(
                             [s EXCEPT !.penalty_paid = @ + w.penalty,
                                       !.interest_paid = @ + w.interest,
                                       !.principal_paid = @ + w.principal,
                                       !.total_paid = @ + tot], today)
                IN  /\ sched' = [sched EXCEPT ![i] = s2]
                    /\ proc' = [proc EXCEPT ![p].k = @ + 1,
                                            ![p].remaining = @ - tot,
                                            ![p].credit[i] = tot]
           ELSE /\ proc' = [proc EXCEPT ![p].k = @ + 1]
                /\ UNCHANGED sched
    /\ UNCHANGED <<loan, txn, today, charged, app, numbers, applications>>

\* the loop ends: no row left, or nothing left of the amount
EndAllocation(p) ==
    /\ proc[p].pc = "alloc"
    /\ (proc[p].k > Len(proc[p].q) \/ proc[p].remaining <= 0)
    /\ proc' = [proc EXCEPT ![p].pc = "done"]
    /\ UNCHANGED <<loan, sched, txn, today, charged, app, numbers, applications>>

NextRace ==
    \E p \in Procs :
        \/ InsertTransaction(p)
        \/ ReadLoan(p)
        \/ WriteLoan(p)
        \/ QuerySchedules(p)
        \/ AllocRow(p)
        \/ EndAllocation(p)

SpecRace == InitRace /\ [][NextRace]_vars

\* ------------------------------------ LoanApplication.calculated_interest
\* Python values: a type and an exact fraction n/d. The DecimalFields of a
\* loaded row are Decimal, term_months is an int, int / int is a float.
Methods == {"flat", "reducing", "compound"}

RequestedAmounts == {1000, 2000}

\* approved_amount is nullable and carries no validator
\* (None is the empty tuple, a stored value the tuple holding it)
None == <<>>

ApprovedAmounts == {None, <<0>>, <<1500>>}

InterestRates == {0, 12, 24}

TermChoices == {6, 12, 24}

Decimal(v) == [type |-> "Decimal", n |-> v, d |-> 1]

PyInt(v) == [type |-> "int", n |-> v, d |-> 1]

TypeError == [type |-> "TypeError", n |-> 0, d |-> 1]

ZeroDivisionError == [type |-> "ZeroDivisionError", n |-> 0, d |-> 1]

NotEvaluated == [type |-> "unevaluated", n |-> 0, d |-> 1]

Raised(a) == a.type \in {"TypeError", "ZeroDivisionError"}

\* Decimal and float do not mix in arithmetic
Unsupported(a, b) == {a.type, b.type} = {"Decimal", "float"}

ResultType(a, b) ==
    IF "Decimal" \in {a.type, b.type} THEN "Decimal"
    ELSE IF "float" \in {a.type, b.type} THEN "float"
    ELSE "int"

PyMul(a, b) ==
    IF Raised(a) THEN a ELSE IF Raised(b) THEN b
    ELSE IF Unsupported(a, b) THEN TypeError
    ELSE [type |-> ResultType(a, b), n |-> a.n * b.n, d |-> a.d * b.d]

PyAdd(a, b) ==
    IF Raised(a) THEN a ELSE IF Raised(b) THEN b
    ELSE IF Unsupported(a, b) THEN TypeError
    ELSE [type |-> ResultType(a, b), n |-> a.n * b.d + b.n * a.d, d |-> a.d * b.d]

PySub(a, b) ==
    IF Raised(a) THEN a ELSE IF Raised(b) THEN b
    ELSE IF Unsupported(a, b) THEN TypeError
    ELSE [type |-> ResultType(a, b), n |-> a.n * b.d - b.n * a.d, d |-> a.d * b.d]

\* true division: int / int is a float
PyTrueDiv(a, b) ==
    IF Raised(a) THEN a ELSE IF Raised(b) THEN b
    ELSE IF Unsupported(a, b) THEN TypeError
    ELSE IF b.n = 0 THEN ZeroDivisionError
    ELSE [type |-> IF ResultType(a, b) = "int" THEN "float" ELSE ResultType(a, b),
          n |-> a.n * b.d, d |-> a.d * b.n]

RECURSIVE IntPow(_, _)
IntPow(x, k) == IF k = 0 THEN 1 ELSE x * IntPow(x, k - 1)

\* a ** b; the fraction is computed for whole exponents
PyPow(a, b) ==
    IF Raised(a) THEN a ELSE IF Raised(b) THEN b
    ELSE IF Unsupported(a, b) THEN TypeError
    ELSE [type |-> ResultType(a, b),
          n |-> IntPow(a.n, b.n \div b.d), d |-> IntPow(a.d, b.n \div b.d)]

\* `not x` / `x or y` on a nullable Decimal: None and 0 are both falsy
Falsy(v) == v = None \/ v[1] = 0

calculated_interest(a) ==
    LET amount == IF Falsy(a.approved_amount) THEN Decimal(a.requested_amount)
                  ELSE Decimal(a.approved_amount[1])
        rate == PyTrueDiv(Decimal(a.interest_rate), PyInt(100))
    IN  IF a.method = "flat"
        THEN PyMul(PyMul(amount, rate), PyTrueDiv(PyInt(a.term_months), PyInt(12)))
        ELSE IF a.method = "reducing"
        THEN LET monthly_rate == PyTrueDiv(rate, PyInt(12))
             IN  PyMul(PyMul(amount, monthly_rate), PyInt(a.term_months))
        ELSE PyMul(amount,
                   PySub(PyPow(PyAdd(PyInt(1), rate),
                               PyTrueDiv(PyInt(a.term_months), PyInt(12))),
                         PyInt(1)))

total_repayment(a) ==
    LET amount == IF Falsy(a.approved_amount) THEN Decimal(a.requested_amount)
                  ELSE Decimal(a.approved_amount[1])
    IN  PyAdd(amount, calculated_interest(a))

monthly_repayment(a) == PyTrueDiv(total_repayment(a), PyInt(a.term_months))

InitInterest ==
    /\ today = 1
    /\ proc = NoProc
    /\ loan = <<>>
    /\ sched = <<>>
    /\ charged = <<>>
    /\ txn = NoTxn
    /\ numbers = NoNumbers
    /\ applications = NoApplications
    /\ \E m \in Methods, r \in RequestedAmounts, ap \in ApprovedAmounts,
          ir \in InterestRates, t \in TermChoices :
         app = [method |-> m, requested_amount |-> r, approved_amount |-> ap,
                interest_rate |-> ir, term_months |-> t,
                interest |-> NotEvaluated, monthly |-> NotEvaluated]

\* the property calculated_interest is read
GetCalculatedInterest ==
    /\ app.method \in Methods
    /\ app' = [app EXCEPT !.interest = calculated_interest(app)]
    /\ UNCHANGED <<loan, sched, txn, today, charged, proc, numbers, applications>>

\* the property monthly_repayment is read
GetMonthlyRepayment ==
    /\ app.method \in Methods
    /\ app' = [app EXCEPT !.monthly = monthly_repayment(app)]
    /\ UNCHANGED <<loan, sched, txn, today, charged, proc, numbers, applications>>

NextInterest ==
    \/ GetCalculatedInterest
    \/ GetMonthlyRepayment

SpecInterest == InitInterest /\ [][NextInterest]_vars

\* ------------------------------------------- generated record numbers
\* LoanApplication.save, Loan.save and RepaymentTransaction.save share one
\* scheme: prefix + zero-filled counter. `numbers` lists the counters of the
\* records with the current prefix in id order; the number fields are unique.
MaxRecords == 3

NumberTables == {<<>>, <<1>>, <<1, 2>>, <<9999>>}

\* int(last.number[-4:]) of the record order_by('-id').first(), plus one;
\* 0001 when there is none
NextNumber(table) ==
    IF table = <<>> THEN 1 ELSE (table[Len(table)] % 10000) + 1

\* variant: the read also sees the numbers other requests have computed and
\* not yet inserted
VisibleNumbers_reserved(p) ==
    LET R == {q \in DOMAIN proc : q # p /\ proc[q].pc = "numbered"}
    IN  IF R = {} THEN numbers
        ELSE Append(numbers, CHOOSE m \in {proc[q].number : q \in R} :
                                \A q \in R : proc[q].number <= m)

\* what the query of a request sees: the rows already inserted
VisibleNumbers(p) == numbers

IdleRequest == [pc |-> "idle", number |-> 0, seen |-> 0]

InitNumber ==
    /\ today = 1
    /\ loan = <<>>
    /\ sched = <<>>
    /\ charged = <<>>
    /\ txn = NoTxn
    /\ app = NoApp
    /\ applications = NoApplications
    /\ proc = [p \in Procs |-> IdleRequest]
    /\ numbers \in NumberTables

\* `if not self.<x>_number`: the last record is read and the number computed
GenerateNumber(p) ==
    /\ proc[p].pc = "idle"
    /\ proc' = [proc EXCEPT ![p] = [pc |-> "numbered",
                                   number |-> NextNumber(VisibleNumbers(p)),
                                   seen |-> Len(numbers)]]
    /\ UNCHANGED <<loan, sched, txn, today, charged, app, numbers, applications>>

\* super().save(): the insert; a number already present violates unique=True
InsertRecord(p) ==
    /\ proc[p].pc = "numbered"
    /\ IF \E k \in 1..Len(numbers) : numbers[k] = proc[p].number
       THEN /\ proc' = [proc EXCEPT ![p].pc = "IntegrityError"]
            /\ UNCHANGED numbers
       ELSE /\ proc' = [proc EXCEPT ![p].pc = "saved"]
            /\ numbers' = Append(numbers, proc[p].number)
    /\ UNCHANGED <<loan, sched, txn, today, charged, app, applications>>

\* the request is over; the next one starts with a record without a number
NewRequest(p) ==
    /\ proc[p].pc \in {"saved", "IntegrityError"}
    /\ Len(numbers) < MaxRecords
    /\ proc' = [proc EXCEPT ![p] = IdleRequest]
    /\ UNCHANGED <<loan, sched, txn, today, charged, app, numbers, applications>>

NextNumberGen ==
    \E p \in Procs :
        \/ GenerateNumber(p)
        \/ InsertRecord(p)
        \/ NewRequest(p)

SpecNumber == InitNumber /\ [][NextNumberGen]_vars

\* ------------------------------------- LoanApplicationAdmin bulk actions
AppIds == {1, 2, 3}

ApplicationStatus == {"draft", "submitted", "under_review", "approved", "rejected",
                      "cancelled", "disbursed"}

\* applications as members leave them: the admin actions have not run yet
EnteredStatus == {"draft", "submitted", "cancelled"}

\* variant: the update is not filtered by status
UpdateSelected_unfiltered(Q, from, to) ==
    [a \in AppIds |-> IF a \in Q THEN to ELSE applications[a]]

\* queryset.filter(status=from).update(status=to)
UpdateSelected(Q, from, to) ==
    [a \in AppIds |-> IF a \in Q /\ applications[a] = from THEN to ELSE applications[a]]

InitAdmin ==
    /\ today = 1
    /\ loan = <<>>
    /\ sched = <<>>
    /\ charged = <<>>
    /\ txn = NoTxn
    /\ proc = NoProc
    /\ app = NoApp
    /\ numbers = NoNumbers
    /\ applications \in [AppIds -> EnteredStatus]

mark_under_review ==
    \E Q \in SUBSET AppIds :
        /\ Q # {}
        /\ applications' = UpdateSelected(Q, "submitted", "under_review")
        /\ UNCHANGED <<loan, sched, txn, today, charged, proc, app, numbers>>

approve_applications ==
    \E Q \in SUBSET AppIds :
        /\ Q # {}
        /\ applications' = UpdateSelected(Q, "under_review", "approved")
        /\ UNCHANGED <<loan, sched, txn, today, charged, proc, app, numbers>>

reject_applications ==
    \E Q \in SUBSET AppIds :
        /\ Q # {}
        /\ applications' = UpdateSelected(Q, "under_review", "rejected")
        /\ UNCHANGED <<loan, sched, txn, today, charged, proc, app, numbers>>

NextAdmin ==
    \/ mark_under_review
    \/ approve_applications
    \/ reject_applications

SpecAdmin == InitAdmin /\ [][NextAdmin]_vars

\* =================================================================== claims
\* a step in which a completed transaction is saved, i.e. a payment is processed
PayStep == txn'.status = "completed" /\ (CreateTransaction \/ ResaveTransaction)

\* what the step added to row i, by component
PenaltyPayment(i) == sched'[i].penalty_paid - sched[i].penalty_paid
InterestPayment(i) == sched'[i].interest_paid - sched[i].interest_paid
PrincipalPayment(i) == sched'[i].principal_paid - sched[i].principal_paid
Credited(i) == PenaltyPayment(i) + InterestPayment(i) + PrincipalPayment(i)

\* the part of the penalty charged to a row that is not yet paid
UnpaidPenalty(s) == Max(s.penalty_outstanding - s.penalty_paid, 0)
\* what a row still owes
Outstanding(s) == s.principal_outstanding + s.interest_outstanding + UnpaidPenalty(s)
\* the combined outstanding of a loan
Combined(ln) == ln.outstanding_balance + ln.outstanding_interest + ln.penalty_balance

\* some payment has been processed and row i has money on it
Paid(i) == sched[i].total_paid > 0

\* C1: a payment adds to a row (penalty + interest + principal) at most what the
\* row owed just before it (principal + interest outstanding + unpaid penalty).
C1_AllocWithinOutstanding ==
    [][PayStep => \A i \in Inst : Credited(i) <= Outstanding(sched[i])]_vars

\* C2: within one row and one payment, interest is paid only if the payment
\* covers the row's penalty_outstanding, and principal only if it covers the
\* row's interest_outstanding.
C2_Waterfall ==
    [][PayStep => \A i \in Inst :
          /\ InterestPayment(i) > 0 => PenaltyPayment(i) = sched[i].penalty_outstanding
          /\ PrincipalPayment(i) > 0 => InterestPayment(i) = sched[i].interest_outstanding]_vars

\* C2 witness: a row with a penalty has had penalty, interest and principal paid
C2_Witness ==
    \E i \in Inst : /\ sched[i].penalty_outstanding > 0
                    /\ sched[i].penalty_paid > 0
                    /\ sched[i].interest_paid > 0
                    /\ sched[i].principal_paid > 0

\* what is left of the payment when the allocator reaches row a
RemainingBefore(a) ==
    LET E == Eligible(sched, txn'.loan)
        C == [c \in Inst |-> IF c \in E /\ sched[c].due_date < sched[a].due_date
                             THEN Credited(c) ELSE 0]
    IN  txn'.amount - SumOver(C, Inst)

\* C3: a row is credited only after every eligible row of the loan with an
\* earlier due date has received min(remaining payment, its outstanding).
C3_EarliestFirst ==
    [][PayStep => \A a, b \in Eligible(sched, txn'.loan) :
          (sched[a].due_date < sched[b].due_date /\ Credited(b) > 0)
             => Credited(a) = Min(RemainingBefore(a), Outstanding(sched[a]))]_vars

\* C4 (as stated): after a payment is processed the loan is completed iff its
\* combined outstanding is <= 1, whatever its status was before.
C4_CompletedIff ==
    [][PayStep => (loan'[txn'.loan].status = "completed"
                     <=> Combined(loan'[txn'.loan]) <= 1)]_vars

\* C4 (amended): after a payment is processed the loan is completed if its
\* combined outstanding is <= 1, and otherwise keeps the status it had.
C4_CompletedOrUnchanged ==
    [][PayStep =>
         /\ Combined(loan'[txn'.loan]) <= 1 => loan'[txn'.loan].status = "completed"
         /\ Combined(loan'[txn'.loan]) > 1
               => loan'[txn'.loan].status = loan[txn'.loan].status]_vars

\* C4 witness: a processed payment left the loan completed with exactly the
\* tolerance outstanding
C4_Witness ==
    /\ txn.status = "completed"
    /\ txn.principal_amount > 0
    /\ loan[txn.loan].status = "completed"
    /\ Combined(loan[txn.loan]) = 1

\* C5: the three balances of every loan are never negative.
C5_NonNegative ==
    \A l \in Loans : /\ loan[l].outstanding_balance >= 0
                     /\ loan[l].outstanding_interest >= 0
                     /\ loan[l].penalty_balance >= 0

\* C5 witness: a processed payment stated more penalty than the loan ever had
C5_Witness ==
    /\ txn.status = "completed"
    /\ txn.penalty_amount > SumOver(charged, Inst)
    /\ loan[txn.loan].penalty_balance = 0

\* C6: a processed payment lowers each loan balance by exactly the total the
\* allocator applied to the rows for that component, floored at zero.
C6_LedgerAggregates ==
    [][PayStep =>
         LET l == txn'.loan
             P == [i \in Inst |-> PrincipalPayment(i)]
             N == [i \in Inst |-> InterestPayment(i)]
             Y == [i \in Inst |-> PenaltyPayment(i)]
         IN  /\ loan'[l].outstanding_balance
                   = Max(loan[l].outstanding_balance - SumOver(P, Inst), 0)
             /\ loan'[l].outstanding_interest
                   = Max(loan[l].outstanding_interest - SumOver(N, Inst), 0)
             /\ loan'[l].penalty_balance
                   = Max(loan[l].penalty_balance - SumOver(Y, Inst), 0)]_vars

\* C7: a processed payment increases neither any row's total_outstanding nor
\* the loan's combined outstanding.
C7_Monotonic ==
    [][PayStep =>
         /\ \A i \in Inst : sched'[i].total_outstanding <= sched[i].total_outstanding
         /\ Combined(loan'[txn'.loan]) <= Combined(loan[txn'.loan])]_vars

\* C8: saving a completed payment whose amount is zero or negative changes
\* neither the loan ledger nor any row.
C8_NonPositiveRejected ==
    [][(PayStep /\ txn'.amount <= 0) => (loan' = loan /\ sched' = sched)]_vars

\* C9: for every saved row each outstanding is due minus paid: principal,
\* interest, and the penalty outstanding is the penalty charged minus
\* penalty_paid.
C9_OutstandingIsDueMinusPaid ==
    \A i \in Inst :
        /\ sched[i].principal_outstanding = sched[i].principal_amount - sched[i].principal_paid
        /\ sched[i].interest_outstanding = sched[i].interest_amount - sched[i].interest_paid
        /\ sched[i].penalty_outstanding = charged[i] - sched[i].penalty_paid

\* a step that saves row i: the row is edited, or a payment credits it
SavesRow(i) == SaveSchedule(i) \/ (PayStep /\ Credited(i) > 0)

\* C10: every save of a row sets its status by the first matching rule (paid,
\* partial, overdue, pending), whatever the status was before.
C10_StatusRule ==
    [][\A i \in Inst : SavesRow(i) =>
          LET s == sched'[i] IN
            /\ s.total_paid >= s.total_amount + s.penalty_outstanding
                  => s.status = "paid"
            /\ (s.total_paid < s.total_amount + s.penalty_outstanding /\ s.total_paid > 0)
                  => s.status = "partial"
            /\ (s.total_paid < s.total_amount + s.penalty_outstanding /\ s.total_paid <= 0
                  /\ s.due_date < today') => s.status = "overdue"
            /\ (s.total_paid < s.total_amount + s.penalty_outstanding /\ s.total_paid <= 0
                  /\ s.due_date >= today') => s.status = "pending"]_vars

\* C10 witness: a row with nothing paid was saved after its due date, after a
\* payment on the loan was processed
C10_Witness ==
    /\ txn.status = "completed"
    /\ \E i \in Inst : sched[i].status = "overdue"

\* C11: after any sequence of payments every row has penalty_paid at most the
\* penalty charged to it (penalty_outstanding), and total_outstanding is never
\* negative.
C11_PenaltyCapped ==
    \A i \in Inst : /\ sched[i].penalty_paid <= sched[i].penalty_outstanding
                    /\ sched[i].total_outstanding >= 0

\* C12: starting from rows with nothing paid, every row keeps
\* interest_paid <= interest_amount and principal_paid <= principal_amount,
\* i.e. interest_outstanding >= 0 and principal_outstanding >= 0.
C12_InterestPrincipalCapped ==
    \A i \in Inst : /\ sched[i].interest_paid <= sched[i].interest_amount
                    /\ sched[i].principal_paid <= sched[i].principal_amount
                    /\ sched[i].interest_outstanding >= 0
                    /\ sched[i].principal_outstanding >= 0

\* C12 witness: a payment larger than all a row was due has been processed and
\* the row's interest and principal are paid exactly in full
C12_Witness ==
    /\ txn.status = "completed"
    /\ \E i \in Inst : /\ txn.amount > sched[i].total_amount
                       /\ sched[i].loan = txn.loan
                       /\ sched[i].penalty_outstanding = 0
                       /\ sched[i].interest_paid = sched[i].interest_amount
                       /\ sched[i].principal_paid = sched[i].principal_amount

\* a step in which a transaction is saved, whatever its status
TxnSaveStep == CreateTransaction \/ ResaveTransaction

\* what the eligible rows of the payment's loan owe together before the step
EligibleOutstanding ==
    SumOver([i \in Inst |-> IF i \in Eligible(sched, txn'.loan)
                            THEN Outstanding(sched[i]) ELSE 0], Inst)

\* C13: when a payment exceeds what the eligible rows owe together, every
\* eligible row is credited exactly what it owed, the rows receive
\* min(amount, combined outstanding) in total and nothing else is credited.
C13_OverpaymentUnapplied ==
    [][(PayStep /\ txn'.amount > EligibleOutstanding) =>
         /\ \A i \in Eligible(sched, txn'.loan) : Credited(i) = Outstanding(sched[i])
         /\ SumOver([i \in Inst |-> Credited(i)], Inst)
               = Min(txn'.amount, EligibleOutstanding)]_vars

\* C14: a payment leaves unchanged every row of another loan and every row of
\* its own loan whose status is paid or waived.
C14_FrameOfAllocation ==
    [][PayStep => \A i \in Inst :
          (sched[i].loan # txn'.loan \/ sched[i].status \in {"paid", "waived"})
             => sched'[i] = sched[i]]_vars

\* C14 witness: a payment with money in it was processed on a loan whose row
\* is waived, and the row is still waived with nothing paid
C14_Witness ==
    /\ txn.status = "completed"
    /\ txn.amount > 0
    /\ loan[txn.loan].total_paid > 0
    /\ \E i \in Inst : /\ sched[i].loan = txn.loan
                       /\ sched[i].status = "waived"
                       /\ sched[i].total_paid = 0

\* C15: saving a transaction whose status is not completed changes no loan
\* and no row, also when it was completed before.
C15_OnlyCompletionChanges ==
    [][(txn'.status # "completed" /\ TxnSaveStep) => (loan' = loan /\ sched' = sched)]_vars

\* C15 witness: the one payment made on a loan has been moved to reversed and
\* what it paid is still on the loan and on a row
C15_Witness ==
    /\ txn.status = "reversed"
    /\ txn.amount > 0
    /\ loan[txn.loan].total_paid = txn.amount
    /\ \E i \in Inst : sched[i].loan = txn.loan /\ sched[i].total_paid > 0

\* C19: a row whose status is paid is still paid after any save of a
\* transaction (completed, reversed or otherwise).
C19_PaidAbsorbing ==
    [][\A i \in Inst : (sched[i].status = "paid" /\ sched'[i].status # "paid")
                          => ~TxnSaveStep]_vars

\* C19 witness: a row is paid and the transaction last saved on its loan is a
\* reversed one
C19_Witness ==
    /\ txn.status = "reversed"
    /\ txn.amount > 0
    /\ \E i \in Inst : sched[i].loan = txn.loan /\ sched[i].status = "paid"

\* a step of the worked examples in which a payment is processed
ExamplePayStep ==
    txn'.status = "completed" /\ (CreateExampleTransaction \/ ResaveExampleTransaction)

\* row i is the only row of the payment's loan that is still to pay
OnlyOpenRow(i) ==
    /\ sched[i].loan = txn'.loan
    /\ sched[i].status \in {"pending", "partial", "overdue"}
    /\ \A j \in Inst \ {i} : sched[j].loan # txn'.loan \/ sched[j].status \in {"paid", "waived"}

\* C17: on a lone installment owing principal 1000, interest 200 and penalty
\* 50 with nothing paid, a payment of 300 adds 50 to penalty_paid, 200 to
\* interest_paid and 50 to principal_paid, and leaves penalty outstanding 0,
\* interest outstanding 0 and principal outstanding 950.
C17_Example300 ==
    [][\A i \in Inst :
         (/\ sched[i].principal_outstanding = 1000
          /\ sched[i].interest_outstanding = 200
          /\ sched[i].penalty_outstanding = 50
          /\ sched[i].total_paid = 0
          /\ txn'.amount = 300
          /\ OnlyOpenRow(i)
          /\ ExamplePayStep)
         => /\ PenaltyPayment(i) = 50
            /\ InterestPayment(i) = 200
            /\ PrincipalPayment(i) = 50
            /\ sched'[i].penalty_outstanding = 0
            /\ sched'[i].interest_outstanding = 0
            /\ sched'[i].principal_outstanding = 950]_vars

\* row i owes 500 without a penalty and nothing is paid on it
OpenFiveHundred(i) ==
    /\ sched[i].loan = txn'.loan
    /\ sched[i].status \in {"pending", "partial", "overdue"}
    /\ sched[i].total_outstanding = 500
    /\ sched[i].penalty_outstanding = 0
    /\ sched[i].total_paid = 0

\* C18: with two installments of 500 due in consecutive months, no penalty and
\* nothing paid, a payment of 600 credits 500 to the earlier one, which becomes
\* paid, and 100 to the later one, which becomes partial.
C18_Example600 ==
    [][\A j, f \in Inst :
         (/\ sched[j].due_date < sched[f].due_date
          /\ OpenFiveHundred(j)
          /\ OpenFiveHundred(f)
          /\ txn'.amount = 600
          /\ ExamplePayStep)
         => /\ Credited(j) = 500
            /\ sched'[j].status = "paid"
            /\ Credited(f) = 100
            /\ sched'[f].status = "partial"]_vars

\* C18 witness: the one payment of 600 has been processed on the two rows of 500
C18_Witness ==
    /\ txn.status = "completed"
    /\ txn.amount = 600
    /\ loan[txn.loan].total_paid = 600
    /\ \E j, f \in Inst : /\ sched[j].due_date < sched[f].due_date
                          /\ sched[j].total_amount = 500
                          /\ sched[j].total_paid = 500
                          /\ sched[j].status = "paid"
                          /\ sched[f].total_amount = 500
                          /\ sched[f].total_paid = 100
                          /\ sched[f].status = "partial"

\* both payments loaded row i in the same state, before either wrote it, and
\* both allocated to it
BothAllocated(i) ==
    /\ \A p \in Procs : proc[p].pc = "done" /\ proc[p].credit[i] > 0
    /\ proc[1].snap[i] = proc[2].snap[i]

\* C16: two payments of one loan running at the same time are not serialised:
\* when both loaded an installment before either wrote it, each allocates
\* against the same pre-payment outstanding and the row ends up holding one
\* payment's write only, the other being overwritten.
C16_LostAllocation ==
    \A i \in Inst :
        BothAllocated(i) =>
            /\ \A p \in Procs :
                 proc[p].credit[i] <= ScheduleOutstanding(proc[p].snap[i])
            /\ \E p \in Procs :
                 sched[i].total_paid = proc[p].snap[i].total_paid + proc[p].credit[i]

\* C16 witness: the two payments together allocated more to the row than it
\* owed before them, and the row shows only one of the two allocations
C16_Witness ==
    \E i \in Inst :
        /\ BothAllocated(i)
        /\ proc[1].credit[i] + proc[2].credit[i] > Outstanding(proc[1].snap[i])
        /\ sched[i].total_paid < proc[1].snap[i].total_paid
                                   + proc[1].credit[i] + proc[2].credit[i]

\* the value v is the number n/d
IsNumber(v, n, d) == v.type \in {"Decimal", "float", "int"} /\ v.n * d = n * v.d

\* the amount the interest is computed on: approved_amount when set
ClaimedAmount == IF app.approved_amount = None THEN app.requested_amount
                 ELSE app.approved_amount[1]

\* (1 + rate)^(term_months/12) - 1 as a fraction of 100^years, whole years only
CompoundGrowth(years) == IntPow(100 + app.interest_rate, years) - IntPow(100, years)

\* C20: calculated_interest is amount * rate * (term/12) for flat,
\* amount * (rate/12) * term for reducing and
\* amount * ((1 + rate)^(term/12) - 1) for compound, with rate =
\* interest_rate/100 and amount = approved_amount when set, else
\* requested_amount; monthly_repayment is (amount + interest) / term_months.
C20_InterestByMethod ==
    /\ (app.method \in {"flat", "reducing"} /\ app.interest # NotEvaluated)
          => IsNumber(app.interest,
                      ClaimedAmount * app.interest_rate * app.term_months, 1200)
    /\ (app.method = "compound" /\ app.interest # NotEvaluated)
          => IF app.term_months % 12 = 0
             THEN IsNumber(app.interest,
                           ClaimedAmount * CompoundGrowth(app.term_months \div 12),
                           IntPow(100, app.term_months \div 12))
             ELSE ~Raised(app.interest)
    /\ (app.method \in Methods /\ app.interest # NotEvaluated /\ app.monthly # NotEvaluated)
          => IsNumber(app.monthly,
                      ClaimedAmount * app.interest.d + app.interest.n,
                      app.interest.d * app.term_months)

\* C21: number generation takes the counter of the last record and adds one
\* without a lock: two saves that read the same last record compute the same
\* number.
C21_SameNumber ==
    \A p, q \in Procs :
        (/\ proc[p].pc = "numbered"
         /\ proc[q].pc = "numbered"
         /\ proc[p].seen = proc[q].seen)
        => proc[p].number = proc[q].number

\* C21 witness: two requests are in flight with the same computed number
C21_Witness ==
    /\ proc[1].pc = "numbered"
    /\ proc[2].pc = "numbered"
    /\ proc[1].number = proc[2].number

\* C22: a payment is applied once: saving an already completed payment again
\* leaves the loan and every installment unchanged.
C22_AppliedOnce ==
    [][(/\ txn.status = "completed"
        /\ txn'.status = "completed"
        /\ ResaveTransaction)
       => (loan' = loan /\ sched' = sched)]_vars

\* C23: whatever the interleaving of two completed payments of one loan, when
\* both are through the loan's total_paid is its initial value (0) plus both
\* amounts.
C23_NoLostLedgerUpdate ==
    (/\ \A p \in Procs : proc[p].pc = "done"
     /\ proc[1].tx.loan = proc[2].tx.loan)
    => loan[proc[1].tx.loan].total_paid = proc[1].tx.amount + proc[2].tx.amount

\* C24: a payment changes a loan's status only from active to completed; a
\* defaulted, written_off or restructured loan keeps its status.
C24_StatusOnlyFromActive ==
    [][PayStep =>
         \A l \in Loans :
             loan'[l].status # loan[l].status
                => (loan[l].status = "active" /\ loan'[l].status = "completed")]_vars

\* C25: every installment's total_paid is the sum of its principal_paid,
\* interest_paid and penalty_paid.
C25_TotalPaidIsSum ==
    \A i \in Inst :
        sched[i].total_paid
           = sched[i].principal_paid + sched[i].interest_paid + sched[i].penalty_paid

\* C25 witness: a row on which all three parts have been paid
C25_Witness ==
    \E i \in Inst : /\ sched[i].penalty_paid > 0
                    /\ sched[i].interest_paid > 0
                    /\ sched[i].principal_paid > 0

\* C26: an installment whose stored status is overdue reports is_overdue, and
\* is_overdue is false only for installments that are not past due or are
\* paid or waived.
C26_OverdueReported ==
    \A i \in Inst :
        /\ sched[i].status = "overdue" => is_overdue(sched[i], today)
        /\ ~is_overdue(sched[i], today)
              => (sched[i].due_date >= today \/ sched[i].status \in {"paid", "waived"})

\* C27: completion_percentage stays within 0..100: total_paid never exceeds
\* principal_amount + total_interest.
C27_PercentageWithinRange ==
    \A l \in Loans :
        LET c == completion_percentage(loan[l])
        IN  /\ 0 <= c.n
            /\ c.n <= 100 * c.d
            /\ loan[l].total_paid <= loan[l].principal_amount + loan[l].total_interest

\* two values are the same number
SameNumber(v, w) ==
    /\ v.type \in {"Decimal", "float", "int"}
    /\ w.type \in {"Decimal", "float", "int"}
    /\ v.n * w.d = w.n * v.d

\* C28: for every amount, rate and term the flat method returns the same total
\* interest as the reducing method, and so the same monthly_repayment.
C28_FlatEqualsReducing ==
    /\ (app.method = "flat" /\ app.interest # NotEvaluated)
          => SameNumber(app.interest,
                        calculated_interest([app EXCEPT !.method = "reducing"]))
    /\ (app.method = "flat" /\ app.monthly # NotEvaluated)
          => SameNumber(app.monthly,
                        monthly_repayment([app EXCEPT !.method = "reducing"]))

\* C29: the admin bulk actions move an application only from submitted to
\* under_review (mark_under_review) and from under_review to approved
\* (approve_applications) or rejected (reject_applications); every other
\* application keeps its status.
C29_ReviewWorkflow ==
    [][\A a \in AppIds :
         applications'[a] # applications[a] =>
            \/ /\ applications[a] = "submitted"
               /\ applications'[a] = "under_review"
               /\ mark_under_review
            \/ /\ applications[a] = "under_review"
               /\ applications'[a] = "approved"
               /\ approve_applications
            \/ /\ applications[a] = "under_review"
               /\ applications'[a] = "rejected"
               /\ reject_applications]_vars

\* C29 witness: the actions have approved one application and rejected another
\* while a third, never submitted, is as it was entered
C29_Witness ==
    \E a, b, d \in AppIds :
        /\ applications[a] = "approved"
        /\ applications[b] = "rejected"
        /\ applications[d] \in {"draft", "cancelled"}

\* C30: mark_as_completed and mark_as_defaulted change the status of a loan
\* only when it is active (to completed, respectively defaulted) and change
\* no balance field of any loan.
C30_LoanActionsFrame ==
    [][\A l \in Loans :
         /\ mark_as_completed =>
              /\ loan'[l] = [loan[l] EXCEPT !.status = loan'[l].status]
              /\ loan'[l].status # loan[l].status
                    => (loan[l].status = "active" /\ loan'[l].status = "completed")
         /\ mark_as_defaulted =>
              /\ loan'[l] = [loan[l] EXCEPT !.status = loan'[l].status]
              /\ loan'[l].status # loan[l].status
                    => (loan[l].status = "active" /\ loan'[l].status = "defaulted")]_vars

\* C30 witness: a loan on which a payment was made has been marked defaulted
C30_Witness ==
    \E l \in Loans : loan[l].status = "defaulted" /\ loan[l].total_paid > 0

====
